---- MODULE Spec2Model ----
(***************************************************************************)
(* Model of sculptr.ai's geometry pipeline:                                *)
(*   ai/generator.py      GeneratorEngine: primitive builders, OBJ writer  *)
(*   renderer/renderer.py SimpleGLViewport: OBJ loader, bounds, normals,   *)
(*                        free-fly camera and frame-to-fit                 *)
(*                                                                         *)
(* Numbers.  A Python float is modelled as a fixed-point integer counting  *)
(* units of 10^-7 (one digit finer than the writer's "%.6f"), so that the  *)
(* writer's rounding is a real loss of information.  1.0 is Scale.         *)
(* Text.  A file is a sequence of lines, a line the sequence of its        *)
(* whitespace-separated parts (what line.strip().split() returns), a part  *)
(* a sequence of one-character strings.                                    *)
(***************************************************************************)
EXTENDS Integers, Sequences, FiniteSets, TLC

\* ------------------------------------------------------------------------
\* Fixed-point arithmetic standing for Python float arithmetic
\* ------------------------------------------------------------------------
Scale == 10 * 1000 * 1000
Half4 == 10 * 1000

Abs(a) == IF a < 0 THEN -a ELSE a
Sgn(a) == IF a < 0 THEN -1 ELSE IF a > 0 THEN 1 ELSE 0
Max2(a, b) == IF a >= b THEN a ELSE b
Min2(a, b) == IF a <= b THEN a ELSE b

\* a * b on floats: (a*b)/Scale, split so that no intermediate product
\* leaves 32 bits.
FMul(a, b) ==
    LET x == Abs(a)
        y == Abs(b)
        xh == x \div Half4
        xl == x % Half4
        yh == y \div Half4
        yl == y % Half4
    IN  Sgn(a) * Sgn(b) *
        (xh * yh * 10 + (xh * yl + xl * yh + (xl * yl) \div Half4) \div 1000)

\* The decimal digits of r/b after the point, n of them, as an integer.
RECURSIVE FracDigits(_, _, _)
FracDigits(r, b, n) ==
    IF n = 0 THEN 0
    ELSE LET d == (r * 10) \div b
             r2 == (r * 10) % b
         IN  d * (10 ^ (n - 1)) + FracDigits(r2, b, n - 1)

\* x / y for 0 <= x, 0 < y < 20.0: long division, 7 digits after the point.
Quotient(x, y) == (x \div y) * Scale + FracDigits(x % y, y, 7)

\* a / b on floats (b # 0).  From 20.0 on, both are first brought down by
\* 100 so that the long division stays in 32 bits.
FDiv(a, b) ==
    LET x == Abs(a)
        y == Abs(b)
    IN  Sgn(a) * Sgn(b) *
        (IF y >= 20 * Scale THEN Quotient(x \div 100, y \div 100) ELSE Quotient(x, y))

\* Largest r with r*r <= n (n >= 0), by bisection on [lo, hi].
RECURSIVE ISqrtIn(_, _, _)
ISqrtIn(n, lo, hi) ==
    IF lo >= hi THEN lo
    ELSE LET mid == (lo + hi + 1) \div 2
         IN  IF mid * mid <= n THEN ISqrtIn(n, mid, hi)
             ELSE ISqrtIn(n, lo, mid - 1)

\* sqrt(n * k * k) from r = isqrt(n): r*k plus the first-order correction
\* of the remainder n - r*r.
SqrtScaled(n, k) ==
    LET r == ISqrtIn(n, 0, 46340)
    IN  IF r = 0 THEN 0 ELSE r * k + ((n - r * r) * k) \div (2 * r)

\* math.sqrt on floats: sqrt(a/Scale)*Scale = sqrt(a*Scale), taken as
\* sqrt(a*10) * 1000; from 20.0 on the radicand is scaled the other way,
\* sqrt(a/10) * 10000, to stay in 32 bits.
FSqrt(a) ==
    IF a < 20 * Scale THEN SqrtScaled(a * 10, 1000)
    ELSE SqrtScaled(a \div 10, Half4)

\* math.pi
Pi == 31415927
TwoPi == 2 * Pi
HalfPi == Pi \div 2

\* math.sin: reduce to [-pi/2, pi/2], then the Taylor polynomial to x^11.
SinPoly(x) ==
    LET x2 == FMul(x, x)
        t5 == Scale - x2 \div 110
        t4 == Scale - FMul(x2, t5) \div 72
        t3 == Scale - FMul(x2, t4) \div 42
        t2 == Scale - FMul(x2, t3) \div 20
        t1 == Scale - FMul(x2, t2) \div 6
    IN  FMul(x, t1)

Sin(x) ==
    LET m == x % TwoPi
        r == IF m > Pi THEN m - TwoPi ELSE m
        q == IF r > HalfPi THEN Pi - r
             ELSE IF r < -HalfPi THEN -Pi - r ELSE r
    IN  SinPoly(q)

\* math.cos
Cos(x) == Sin(x + HalfPi)

\* math.radians: degrees * (pi/180)
DegToRad == 174533
Radians(d) == FMul(d, DegToRad)

\* ------------------------------------------------------------------------
\* Vector helpers (renderer.py, module level)
\* ------------------------------------------------------------------------
Zero3 == <<0, 0, 0>>

\* math.sqrt(x*x + y*y + z*z).  From 8.0 on, the components are first
\* brought down by 100 so that the squares stay in 32 bits.
Length3(v) ==
    LET big == Max2(Max2(Abs(v[1]), Abs(v[2])), Abs(v[3])) >= 8 * Scale
        k == IF big THEN 100 ELSE 1
        x == v[1] \div k
        y == v[2] \div k
        z == v[3] \div k
    IN  k * FSqrt(FMul(x, x) + FMul(y, y) + FMul(z, z))

\* l = math.sqrt(x*x + y*y + z*z) or 1.0
_normalize(v) ==
    LET l0 == Length3(v)
        l == IF l0 = 0 THEN Scale ELSE l0
    IN  <<FDiv(v[1], l), FDiv(v[2], l), FDiv(v[3], l)>>

_cross(a, b) ==
    <<FMul(a[2], b[3]) - FMul(a[3], b[2]),
      FMul(a[3], b[1]) - FMul(a[1], b[3]),
      FMul(a[1], b[2]) - FMul(a[2], b[1])>>

_sub(a, b) == <<a[1] - b[1], a[2] - b[2], a[3] - b[3]>>

_add(a, b) == <<a[1] + b[1], a[2] + b[2], a[3] + b[3]>>

_mul(v, s) == <<FMul(v[1], s), FMul(v[2], s), FMul(v[3], s)>>

\* ------------------------------------------------------------------------
\* Text: decimal numerals as Python prints and reads them
\* ------------------------------------------------------------------------
Digits == <<"0", "1", "2", "3", "4", "5", "6", "7", "8", "9">>
DigitSet == {Digits[i] : i \in 1..10}
DigitVal(c) == (CHOOSE i \in 1..10 : Digits[i] = c) - 1

\* str(n) for an int n >= 0
RECURSIVE NatToStr(_)
NatToStr(n) ==
    IF n < 10 THEN <<Digits[n + 1]>>
    ELSE NatToStr(n \div 10) \o <<Digits[(n % 10) + 1]>>

\* str(n) for any int
IntToStr(n) == IF n < 0 THEN <<"-">> \o NatToStr(-n) ELSE NatToStr(n)

\* n >= 0 printed on exactly w digits, zero-padded on the left
RECURSIVE PadDigits(_, _)
PadDigits(n, w) ==
    IF w = 0 THEN <<>>
    ELSE PadDigits(n \div 10, w - 1) \o <<Digits[(n % 10) + 1]>>

\* The value a "%.6f" keeps of c, in units of 10^-6: round half to even.
Round6(m) ==
    LET q == m \div 10
        r == m % 10
    IN  IF r > 5 \/ (r = 5 /\ q % 2 = 1) THEN q + 1 ELSE q

\* f"{c:.6f}"
FormatF6(c) ==
    LET q == Round6(Abs(c))
    IN  (IF c < 0 THEN <<"-">> ELSE <<>>)
        \o NatToStr(q \div 1000000) \o <<".">> \o PadDigits(q % 1000000, 6)

AllDigits(s) == \A i \in 1..Len(s) : s[i] \in DigitSet

\* the int a digit string denotes ("" denotes 0)
RECURSIVE DigitsToNat(_)
DigitsToNat(s) ==
    IF s = <<>> THEN 0
    ELSE DigitsToNat(SubSeq(s, 1, Len(s) - 1)) * 10 + DigitVal(s[Len(s)])

IsSign(c) == c = "-" \/ c = "+"

\* int(tok): an optional sign and one or more digits, else ValueError.
ParseInt(tok) ==
    LET signed == Len(tok) > 0 /\ IsSign(tok[1])
        body == IF signed THEN Tail(tok) ELSE tok
    IN  IF Len(body) > 0 /\ AllDigits(body)
        THEN [ok |-> TRUE,
              val |-> (IF signed /\ tok[1] = "-" THEN -1 ELSE 1) * DigitsToNat(body)]
        ELSE [ok |-> FALSE, val |-> 0]

\* position of the first c in s, or 0
FirstIndex(s, c) ==
    IF \E i \in 1..Len(s) : s[i] = c
    THEN CHOOSE i \in 1..Len(s) : s[i] = c /\ \A j \in 1..(i - 1) : s[j] # c
    ELSE 0

\* the first 7 fraction digits as units of 10^-7
FracToUnits(f) ==
    LET n == Min2(Len(f), 7)
    IN  DigitsToNat(SubSeq(f, 1, n)) * (10 ^ (7 - n))

\* float(tok): an optional sign, digits, an optional point and digits, at
\* least one digit in all; else ValueError.  (Exponents and the words
\* inf/nan are outside the numerals modelled here.)
ParseFloat(tok) ==
    LET signed == Len(tok) > 0 /\ IsSign(tok[1])
        body == IF signed THEN Tail(tok) ELSE tok
        dot == FirstIndex(body, ".")
        ip == IF dot = 0 THEN body ELSE SubSeq(body, 1, dot - 1)
        fp == IF dot = 0 THEN <<>> ELSE SubSeq(body, dot + 1, Len(body))
    IN  IF AllDigits(ip) /\ AllDigits(fp) /\ Len(ip) + Len(fp) > 0
        THEN [ok |-> TRUE,
              val |-> (IF signed /\ tok[1] = "-" THEN -1 ELSE 1)
                      * (DigitsToNat(ip) * Scale + FracToUnits(fp))]
        ELSE [ok |-> FALSE, val |-> 0]

\* p.split("/")[0]
FirstField(p) ==
    LET k == FirstIndex(p, "/")
    IN  IF k = 0 THEN p ELSE SubSeq(p, 1, k - 1)

\* ------------------------------------------------------------------------
\* Primitive builders (generator.py).  A mesh is [verts, faces]; a face is a
\* triple of 0-based indices, as in the source; Python's verts[k] is
\* verts[k + 1] here.
\* ------------------------------------------------------------------------
\* a * j / n for 0 <= j, without leaving 32 bits
MulDiv(a, j, n) == (a \div n) * j + ((a % n) * j) \div n

Mesh(v, f) == [verts |-> v, faces |-> f]

_cube(size) ==
    LET s == FMul(size, Scale \div 2)
        v == << <<-s, -s, -s>>, <<s, -s, -s>>, <<s, s, -s>>, <<-s, s, -s>>,
                <<-s, -s, s>>, <<s, -s, s>>, <<s, s, s>>, <<-s, s, s>> >>
        f == << <<0, 1, 2>>, <<0, 2, 3>>, <<4, 5, 6>>, <<4, 6, 7>>,
                <<0, 1, 5>>, <<0, 5, 4>>, <<2, 3, 7>>, <<2, 7, 6>>,
                <<1, 2, 6>>, <<1, 6, 5>>, <<0, 3, 7>>, <<0, 7, 4>> >>
    IN  Mesh(v, f)

\* idx(i, j) of _uv_sphere
SphereIdx(seg, i, j) == i * seg + (j % seg)

\* inner loop "for j in range(seg)" of the vertex pass of _uv_sphere
RECURSIVE SphereRowVerts(_, _, _, _)
SphereRowVerts(seg, y, r, j) ==
    IF j >= seg THEN <<>>
    ELSE LET phi == MulDiv(TwoPi, j, seg)
         IN  << <<FMul(r, Cos(phi)), y, FMul(r, Sin(phi))>> >>
             \o SphereRowVerts(seg, y, r, j + 1)

\* outer loop "for i in range(rings+1)"
RECURSIVE SphereVerts(_, _, _, _)
SphereVerts(radius, seg, rings, i) ==
    IF i >= rings + 1 THEN <<>>
    ELSE LET theta == MulDiv(Pi, i, rings)
         IN  SphereRowVerts(seg, FMul(radius, Cos(theta)),
                            FMul(radius, Sin(theta)), 0)
             \o SphereVerts(radius, seg, rings, i + 1)

\* two triangles for every (i, j), the polar rows included
SphereQuad_NoPoles(seg, rings, i, j) ==
    << <<SphereIdx(seg, i, j), SphereIdx(seg, i + 1, j), SphereIdx(seg, i + 1, j + 1)>>,
       <<SphereIdx(seg, i, j), SphereIdx(seg, i + 1, j + 1), SphereIdx(seg, i, j + 1)>> >>

\* the faces one (i, j) of the face pass of _uv_sphere appends
SphereQuad(seg, rings, i, j) ==
    LET a == SphereIdx(seg, i, j)
        b == SphereIdx(seg, i + 1, j)
        c == SphereIdx(seg, i + 1, j + 1)
        d == SphereIdx(seg, i, j + 1)
    IN  IF i = 0 THEN << <<a, b, c>> >>
        ELSE IF i = rings - 1 THEN << <<a, b, d>> >>
        ELSE << <<a, b, c>>, <<a, c, d>> >>

RECURSIVE SphereRowFaces(_, _, _, _)
SphereRowFaces(seg, rings, i, j) ==
    IF j >= seg THEN <<>>
    ELSE SphereQuad(seg, rings, i, j) \o SphereRowFaces(seg, rings, i, j + 1)

RECURSIVE SphereFaces(_, _, _)
SphereFaces(seg, rings, i) ==
    IF i >= rings THEN <<>>
    ELSE SphereRowFaces(seg, rings, i, 0) \o SphereFaces(seg, rings, i + 1)

_uv_sphere(radius, seg, rings) ==
    Mesh(SphereVerts(radius, seg, rings, 0), SphereFaces(seg, rings, 0))

\* first loop of _cone / _cylinder: the base circle
RECURSIVE ConeRing(_, _, _, _)
ConeRing(radius, height, seg, j) ==
    IF j >= seg THEN <<>>
    ELSE LET phi == MulDiv(TwoPi, j, seg)
         IN  << <<FMul(radius, Cos(phi)), -(height \div 2), FMul(radius, Sin(phi))>> >>
             \o ConeRing(radius, height, seg, j + 1)

RECURSIVE ConeFaces(_, _, _, _)
ConeFaces(seg, apex_i, center_i, j) ==
    IF j >= seg THEN <<>>
    ELSE LET a == j
             b == (j + 1) % seg
         IN  << <<a, b, apex_i>>, <<center_i, b, a>> >>
             \o ConeFaces(seg, apex_i, center_i, j + 1)

_cone(radius, height, seg) ==
    LET ring == ConeRing(radius, height, seg, 0)
        apex_i == Len(ring)
        v1 == Append(ring, <<0, height \div 2, 0>>)
        center_i == Len(v1)
        v2 == Append(v1, <<0, -(height \div 2), 0>>)
    IN  Mesh(v2, ConeFaces(seg, apex_i, center_i, 0))

\* first loop of _cylinder: top and bottom vertex of each segment, interleaved
RECURSIVE CylRing(_, _, _, _)
CylRing(radius, height, seg, j) ==
    IF j >= seg THEN <<>>
    ELSE LET phi == MulDiv(TwoPi, j, seg)
             x == FMul(radius, Cos(phi))
             z == FMul(radius, Sin(phi))
         IN  << <<x, height \div 2, z>>, <<x, -(height \div 2), z>> >>
             \o CylRing(radius, height, seg, j + 1)

\* top[j] and bot[j]: the value of len(verts) when each was appended
CylTop(j) == 2 * j
CylBot(j) == 2 * j + 1

RECURSIVE CylFaces(_, _, _, _)
CylFaces(seg, top_c, bot_c, j) ==
    IF j >= seg THEN <<>>
    ELSE LET a == CylBot(j)
             b == CylBot((j + 1) % seg)
             c == CylTop((j + 1) % seg)
             d == CylTop(j)
         IN  << <<a, b, c>>, <<a, c, d>>, <<top_c, d, c>>, <<bot_c, b, a>> >>
             \o CylFaces(seg, top_c, bot_c, j + 1)

_cylinder(radius, height, seg) ==
    LET ring == CylRing(radius, height, seg, 0)
        top_c == Len(ring)
        v1 == Append(ring, <<0, height \div 2, 0>>)
        bot_c == Len(v1)
        v2 == Append(v1, <<0, -(height \div 2), 0>>)
    IN  Mesh(v2, CylFaces(seg, top_c, bot_c, 0))

RECURSIVE TorusRowVerts(_, _, _, _, _, _)
TorusRowVerts(R, r, seg, cu, su, j) ==
    IF j >= seg THEN <<>>
    ELSE LET v == MulDiv(TwoPi, j, seg)
             cv == Cos(v)
             sv == Sin(v)
         IN  << <<FMul(R + FMul(r, cv), cu), FMul(r, sv), FMul(R + FMul(r, cv), su)>> >>
             \o TorusRowVerts(R, r, seg, cu, su, j + 1)

RECURSIVE TorusVerts(_, _, _, _, _)
TorusVerts(R, r, seg, ring, i) ==
    IF i >= ring THEN <<>>
    ELSE LET u == MulDiv(TwoPi, i, ring)
         IN  TorusRowVerts(R, r, seg, Cos(u), Sin(u), 0)
             \o TorusVerts(R, r, seg, ring, i + 1)

\* idx(i, j) without the wrap of j
TorusIdx_NoSegWrap(seg, ring, i, j) == (i % ring) * seg + j

\* idx(i, j) without the wrap of i
TorusIdx_NoRingWrap(seg, ring, i, j) == i * seg + (j % seg)

\* idx(i, j) of _torus
TorusIdx(seg, ring, i, j) == (i % ring) * seg + (j % seg)

RECURSIVE TorusRowFaces(_, _, _, _)
TorusRowFaces(seg, ring, i, j) ==
    IF j >= seg THEN <<>>
    ELSE LET a == TorusIdx(seg, ring, i, j)
             b == TorusIdx(seg, ring, i + 1, j)
             c == TorusIdx(seg, ring, i + 1, j + 1)
             d == TorusIdx(seg, ring, i, j + 1)
         IN  << <<a, b, c>>, <<a, c, d>> >> \o TorusRowFaces(seg, ring, i, j + 1)

RECURSIVE TorusFaces(_, _, _)
TorusFaces(seg, ring, i) ==
    IF i >= ring THEN <<>>
    ELSE TorusRowFaces(seg, ring, i, 0) \o TorusFaces(seg, ring, i + 1)

_torus(R, r, seg, ring) ==
    Mesh(TorusVerts(R, r, seg, ring, 0), TorusFaces(seg, ring, 0))

\* ------------------------------------------------------------------------
\* OBJ writer (generator.py)
\* ------------------------------------------------------------------------
TokV == <<"v">>
TokF == <<"f">>
HeaderLine == << <<"o">>, <<"g", "e", "n", "e", "r", "a", "t", "e", "d">> >>

VertexLine(v) == <<TokV, FormatF6(v[1]), FormatF6(v[2]), FormatF6(v[3])>>
\* a face line that keeps the 0-based indices
FaceLine_ZeroBased(f) == <<TokF, IntToStr(f[1]), IntToStr(f[2]), IntToStr(f[3])>>

FaceLine(f) == <<TokF, IntToStr(f[1] + 1), IntToStr(f[2] + 1), IntToStr(f[3] + 1)>>

_write_obj(verts, faces) ==
    <<HeaderLine>>
    \o [i \in 1..Len(verts) |-> VertexLine(verts[i])]
    \o [i \in 1..Len(faces) |-> FaceLine(faces[i])]

\* ------------------------------------------------------------------------
\* OBJ loader (renderer.py, _load_obj): the parsing loop
\* ------------------------------------------------------------------------
\* line.startswith("#")
IsComment(parts) == Len(parts) > 0 /\ Len(parts[1]) > 0 /\ parts[1][1] = "#"

\* a negative index counted from the last vertex without the "+ 1"
ResolveIdx_OffByOne(idx, n) == (IF idx < 0 THEN n + idx ELSE idx) - 1

\* "if idx < 0: idx = len(verts) + idx + 1" and "idxs.append(idx-1)": the
\* 0-based index appended for the integer idx when n vertices are parsed
ResolveIdx(idx, n) == (IF idx < 0 THEN n + idx + 1 ELSE idx) - 1

\* "for p in parts[1:]" of a face line, from part k on; n is len(verts) at
\* this line.  ok is FALSE when int(v) raises ValueError.
RECURSIVE FaceIdxs(_, _, _, _)
FaceIdxs(parts, k, n, idxs) ==
    IF k > Len(parts) THEN [ok |-> TRUE, idxs |-> idxs]
    ELSE LET v == FirstField(parts[k])
             r == ParseInt(v)
         IN  IF v = <<>> THEN FaceIdxs(parts, k + 1, n, idxs)
             ELSE IF ~r.ok THEN [ok |-> FALSE, idxs |-> idxs]
             ELSE FaceIdxs(parts, k + 1, n, Append(idxs, ResolveIdx(r.val, n)))

\* a strip (v(i-1), vi, v(i+1)) instead of a fan from the first vertex
Fan_Strip(idxs, i) ==
    [k \in 1..(Len(idxs) - 2) |-> <<idxs[k], idxs[k + 1], idxs[k + 2]>>]

\* "for i in range(1, len(idxs)-1): faces.append((idxs[0], idxs[i], idxs[i+1]))"
RECURSIVE Fan(_, _)
Fan(idxs, i) ==
    IF i >= Len(idxs) - 1 THEN <<>>
    ELSE << <<idxs[1], idxs[i + 1], idxs[i + 2]>> >> \o Fan(idxs, i + 1)

\* one iteration of "for line in f": the lists after the line, or the error
ParseLine(parts, verts, faces) ==
    IF IsComment(parts) \/ parts = <<>>
    THEN [ok |-> TRUE, verts |-> verts, faces |-> faces]
    ELSE IF parts[1] = TokV /\ Len(parts) >= 4
    THEN LET x == ParseFloat(parts[2])
             y == ParseFloat(parts[3])
             z == ParseFloat(parts[4])
         IN  IF x.ok /\ y.ok /\ z.ok
             THEN [ok |-> TRUE, verts |-> Append(verts, <<x.val, y.val, z.val>>),
                   faces |-> faces]
             ELSE [ok |-> FALSE, verts |-> verts, faces |-> faces]
    ELSE IF parts[1] = TokF /\ Len(parts) >= 4
    THEN LET r == FaceIdxs(parts, 2, Len(verts), <<>>)
         IN  IF r.ok
             THEN [ok |-> TRUE, verts |-> verts, faces |-> faces \o Fan(r.idxs, 1)]
             ELSE [ok |-> FALSE, verts |-> verts, faces |-> faces]
    ELSE [ok |-> TRUE, verts |-> verts, faces |-> faces]

\* the "for line in f" loop over lines lo..hi, started with the lists
\* verts, faces: the lists after line hi, or the first error.  The range is
\* halved rather than peeled so that long files do not nest deeply.
RECURSIVE ParseLines(_, _, _, _, _)
ParseLines(file, lo, hi, verts, faces) ==
    IF lo > hi THEN [ok |-> TRUE, verts |-> verts, faces |-> faces]
    ELSE IF lo = hi THEN ParseLine(file[lo], verts, faces)
    ELSE LET mid == (lo + hi) \div 2
             r == ParseLines(file, lo, mid, verts, faces)
         IN  IF r.ok THEN ParseLines(file, mid + 1, hi, r.verts, r.faces) ELSE r

\* lines 287-307 of _load_obj: the local lists verts, faces, or ValueError
ParseObj(file) == ParseLines(file, 1, Len(file), <<>>, <<>>)

\* ------------------------------------------------------------------------
\* Derived mesh data (renderer.py)
\* ------------------------------------------------------------------------
None == "None"

\* min(...) / max(...) of coordinate c over verts[lo..hi]
RECURSIVE MinCoord(_, _, _, _)
MinCoord(verts, c, lo, hi) ==
    IF lo = hi THEN verts[lo][c]
    ELSE LET mid == (lo + hi) \div 2
         IN  Min2(MinCoord(verts, c, lo, mid), MinCoord(verts, c, mid + 1, hi))

RECURSIVE MaxCoord(_, _, _, _)
MaxCoord(verts, c, lo, hi) ==
    IF lo = hi THEN verts[lo][c]
    ELSE LET mid == (lo + hi) \div 2
         IN  Max2(MaxCoord(verts, c, lo, mid), MaxCoord(verts, c, mid + 1, hi))

\* bounds whose upper corner is taken from the first vertex only
_compute_bounds_FirstMax(verts) ==
    IF verts = <<>>
    THEN [bbox |-> None, center |-> Zero3]
    ELSE LET n == Len(verts)
             lo == [c \in 1..3 |-> MinCoord(verts, c, 1, n)]
             hi == verts[1]
         IN  [bbox |-> <<lo[1], lo[2], lo[3], hi[1], hi[2], hi[3]>>,
              center |-> <<(lo[1] + hi[1]) \div 2, (lo[2] + hi[2]) \div 2,
                           (lo[3] + hi[3]) \div 2>>]

\* _compute_bounds: the values it leaves in _bbox and _center.
\* _bbox is (minx, miny, minz, maxx, maxy, maxz) or None.
_compute_bounds(verts) ==
    IF verts = <<>>
    THEN [bbox |-> None, center |-> Zero3]
    ELSE LET n == Len(verts)
             lo == [c \in 1..3 |-> MinCoord(verts, c, 1, n)]
             hi == [c \in 1..3 |-> MaxCoord(verts, c, 1, n)]
         IN  [bbox |-> <<lo[1], lo[2], lo[3], hi[1], hi[2], hi[3]>>,
              center |-> <<(lo[1] + hi[1]) \div 2, (lo[2] + hi[2]) \div 2,
                           (lo[3] + hi[3]) \div 2>>]

\* Python list indexing: seq[a] is defined for -len <= a < len, a negative
\* a counting from the end; anything else raises IndexError.
PyInRange(a, n) == -n <= a /\ a < n
PyPos(a, n) == IF a >= 0 THEN a + 1 ELSE n + a + 1

\* acc[p] = _add(acc[p], n)
AddAt(acc, p, n) == [acc EXCEPT ![p] = _add(acc[p], n)]

\* lines 331-332: the flat normal of the face at positions pa, pb, pc
FaceNormal(verts, pa, pb, pc) ==
    _normalize(_cross(_sub(verts[pb], verts[pa]), _sub(verts[pc], verts[pa])))

\* the face normal added at the face's first position only
AddNormal_FirstOnly(acc, pa, pb, pc, n) == AddAt(acc, pa, n)

\* lines 333-335: the face normal n added at the three positions
AddNormal(acc, pa, pb, pc, n) == AddAt(AddAt(AddAt(acc, pa, n), pb, n), pc, n)

AccumulateAt(verts, acc, pa, pb, pc) ==
    AddNormal(acc, pa, pb, pc, FaceNormal(verts, pa, pb, pc))

\* the body of "for a,b,c in self._faces" applied to one face
AccumulateFace(verts, acc, f) ==
    AccumulateAt(verts, acc, PyPos(f[1], Len(verts)), PyPos(f[2], Len(verts)),
                 PyPos(f[3], Len(verts)))

\* the loop over faces[lo..hi]; stops at the first face with an index that
\* raises IndexError
RECURSIVE AccumulateFaces(_, _, _, _, _)
AccumulateFaces(verts, faces, lo, hi, acc) ==
    IF lo > hi THEN [ok |-> TRUE, acc |-> acc]
    ELSE IF lo = hi
    THEN IF \A k \in 1..3 : PyInRange(faces[lo][k], Len(verts))
         THEN [ok |-> TRUE, acc |-> AccumulateFace(verts, acc, faces[lo])]
         ELSE [ok |-> FALSE, acc |-> acc]
    ELSE LET mid == (lo + hi) \div 2
             r == AccumulateFaces(verts, faces, lo, mid, acc)
         IN  IF r.ok THEN AccumulateFaces(verts, faces, mid + 1, hi, r.acc) ELSE r

\* normals kept one per face instead of one per vertex
_compute_vertex_normals_PerFace(verts, faces) ==
    IF verts = <<>> \/ faces = <<>>
    THEN [ok |-> TRUE, vnorms |-> <<>>]
    ELSE LET r == AccumulateFaces(verts, faces, 1, Len(faces),
                                  [i \in 1..Len(verts) |-> Zero3])
         IN  IF r.ok
             THEN [ok |-> TRUE,
                   vnorms |-> [i \in 1..Len(faces) |->
                                  _normalize(r.acc[PyPos(faces[i][1], Len(verts))])]]
             ELSE [ok |-> FALSE, vnorms |-> <<>>]

\* _compute_vertex_normals: the value it leaves in _vnorms, or IndexError
\* (raised before _vnorms is assigned).
_compute_vertex_normals(verts, faces) ==
    IF verts = <<>> \/ faces = <<>>
    THEN [ok |-> TRUE, vnorms |-> <<>>]
    ELSE LET r == AccumulateFaces(verts, faces, 1, Len(faces),
                                  [i \in 1..Len(verts) |-> Zero3])
         IN  IF r.ok
             THEN [ok |-> TRUE, vnorms |-> [i \in 1..Len(verts) |-> _normalize(r.acc[i])]]
             ELSE [ok |-> FALSE, vnorms |-> <<>>]

\* lines 309-312 of _load_obj for parsed lists p, with what
\* _compute_bounds (b) and _compute_vertex_normals (nr) do on them
Install(p, b, nr) ==
    [err |-> IF nr.ok THEN "none" ELSE "IndexError", installed |-> TRUE,
     verts |-> p.verts, faces |-> p.faces,
     bbox |-> b.bbox, center |-> b.center, vnorms |-> nr.vnorms]

LoadParsed(p) ==
    IF ~p.ok
    THEN [err |-> "ValueError", installed |-> FALSE, verts |-> <<>>, faces |-> <<>>,
          bbox |-> None, center |-> Zero3, vnorms |-> <<>>]
    ELSE Install(p, _compute_bounds(p.verts), _compute_vertex_normals(p.verts, p.faces))

\* _load_obj on a file's text.  err names the exception that ends it, if
\* any; installed tells whether lines 309-311 ran (_verts, _faces, _bbox,
\* _center assigned); vnorms is assigned only when err = "none".
_load_obj(file) == LoadParsed(ParseObj(file))

\* ------------------------------------------------------------------------
\* Camera math (renderer.py)
\* ------------------------------------------------------------------------
WorldUp == <<0, Scale, 0>>

\* line 230: fwd from the radians cp (pitch) and cy (yaw)
Forward(cp, cy) ==
    _normalize(<<FMul(Cos(cp), Sin(cy)), Sin(cp), FMul(Cos(cp), Cos(cy))>>)

\* lines 233-235
BasisUp(fwd, right) ==
    [fwd |-> fwd, right |-> right, up |-> _normalize(_cross(right, fwd))]

BasisRight(fwd) == BasisUp(fwd, _normalize(_cross(fwd, WorldUp)))

\* _basis: forward, right, up from yaw and pitch in degrees
_basis(yaw, pitch) == BasisRight(Forward(Radians(pitch), Radians(yaw)))

\* the constructor's camera (lines 60-63), also the default of reset_view
\* and _frame_to_fit
DefaultYaw == 35 * Scale
DefaultPitch == -20 * Scale
DefaultDist == 35 * (Scale \div 10)
DefaultCamPos == <<0, 75 * (Scale \div 100), 35 * (Scale \div 10)>>
DefaultCamera ==
    [cam_pos |-> DefaultCamPos, yaw |-> DefaultYaw, pitch |-> DefaultPitch,
     dist |-> DefaultDist]

\* size = max(size, 0.25); self._dist = 2.2 * size
MinExtent == 25 * (Scale \div 100)
FitFactor == 22 * (Scale \div 10)

\* lines 347-351: the camera for a clamped extent
FitCamera(center, dist, fwd) ==
    [cam_pos |-> _sub(center, _mul(fwd, dist)), yaw |-> DefaultYaw,
     pitch |-> DefaultPitch, dist |-> dist]

\* the extent without the lower clamp
FitExtent_NoClamp(bbox) ==
    Max2(Max2(bbox[4] - bbox[1], bbox[5] - bbox[2]), bbox[6] - bbox[3])

\* lines 345-346
FitExtent(bbox) ==
    Max2(Max2(Max2(bbox[4] - bbox[1], bbox[5] - bbox[2]), bbox[6] - bbox[3]), MinExtent)

\* line 350: self._basis() once lines 348 have set yaw and pitch
FitBasis == _basis(DefaultYaw, DefaultPitch)

\* _frame_to_fit: the camera it leaves, from _bbox and _center
_frame_to_fit(bbox, center) ==
    IF bbox = None THEN DefaultCamera
    ELSE FitCamera(center, FMul(FitFactor, FitExtent(bbox)), FitBasis.fwd)

\* ------------------------------------------------------------------------
\* State
\* ------------------------------------------------------------------------
VARIABLES
    input,            \* what the run was started with (a builder call or a test file)
    made,             \* the (verts, faces) a builder returned; NoMesh before
    obj_file,         \* text of the mesh.obj at the job's mesh_path; NoFile before
    _verts,           \* SimpleGLViewport fields
    _faces,
    _vnorms,
    _bbox,
    _center,
    _yaw,
    _pitch,
    _dist,
    _cam_pos,
    _keys,
    _last_mouse,
    _dragging_look,
    last,             \* the last call or event and how it ended
    loads,            \* loads made so far
    events            \* input events delivered so far

jobVars == <<input, made, obj_file>>
meshVars == <<_verts, _faces, _vnorms, _bbox, _center>>
camVars == <<_yaw, _pitch, _dist, _cam_pos>>
inputVars == <<_keys, _last_mouse, _dragging_look>>
vars == <<input, made, obj_file, _verts, _faces, _vnorms, _bbox, _center,
          _yaw, _pitch, _dist, _cam_pos, _keys, _last_mouse,
          _dragging_look, last, loads, events>>

\* bounds of the model
MaxLoads == 2
MaxEvents == 3

NoMesh == [verts |-> <<>>, faces |-> <<>>]
NoFile == <<>>

Event(op, arg, err) == [op |-> op, arg |-> arg, err |-> err]

\* ------------------------------------------------------------------------
\* Files the viewer can be pointed at
\* ------------------------------------------------------------------------
N0 == <<"0">>
N1 == <<"1">>
N2 == <<"2">>
N3 == <<"3">>
N4 == <<"4">>
VLine(a, b, c) == <<TokV, a, b, c>>
TriVerts == <<VLine(N0, N0, N0), VLine(N1, N0, N0), VLine(N0, N1, <<"0", ".", "5">>)>>
UnitCube == _cube(Scale)

Disk ==
    [ tri      |-> TriVerts \o << <<TokF, N1, N2, N3>> >>,
      cube     |-> _write_obj(UnitCube.verts, UnitCube.faces),
      empty    |-> << <<<<"#">>, <<"n", "o", "t", "h", "i", "n", "g">>>>, <<>> >>,
      point    |-> << VLine(N2, <<"-", "1">>, N0) >>,
      badnum   |-> << VLine(N1, N0, N0), VLine(N1, <<"x">>, N0),
                      VLine(N0, N1, N0), <<TokF, N1, N2, N3>> >>,
      shortf   |-> TriVerts \o << <<TokF, N1, N2>> >>,
      toobig   |-> TriVerts \o << <<TokF, N1, N2, N4>> >>,
      zero     |-> TriVerts \o << <<TokF, N0, N1, N2>> >> ]

Paths == DOMAIN Disk
MissingPath == "missing"

\* what _load_obj does on each file of Disk
Loaded == [p \in Paths |-> _load_obj(Disk[p])]

\* ------------------------------------------------------------------------
\* SimpleGLViewport: construction and public API
\* ------------------------------------------------------------------------
\* __init__ up to line 75: empty mesh, default camera, nothing held
EmptyViewport ==
    /\ _verts = <<>>
    /\ _faces = <<>>
    /\ _vnorms = <<>>
    /\ _bbox = None
    /\ _center = Zero3
    /\ _yaw = DefaultYaw
    /\ _pitch = DefaultPitch
    /\ _dist = DefaultDist
    /\ _cam_pos = DefaultCamPos
    /\ _keys = {}
    /\ _last_mouse = <<0, 0>>
    /\ _dragging_look = FALSE

\* __init__ with an obj_path that exists and loads (lines 78-80)
StartWith(r, cam) ==
    /\ _verts = r.verts
    /\ _faces = r.faces
    /\ _vnorms = r.vnorms
    /\ _bbox = r.bbox
    /\ _center = r.center
    /\ _yaw = cam.yaw
    /\ _pitch = cam.pitch
    /\ _dist = cam.dist
    /\ _cam_pos = cam.cam_pos
    /\ _keys = {}
    /\ _last_mouse = <<0, 0>>
    /\ _dragging_look = FALSE

ViewportWith(r) == StartWith(r, _frame_to_fit(r.bbox, r.center))

SetCamera(cam) ==
    /\ _yaw' = cam.yaw
    /\ _pitch' = cam.pitch
    /\ _dist' = cam.dist
    /\ _cam_pos' = cam.cam_pos

\* the body of reset_view
ResetCamera ==
    IF _bbox # None THEN SetCamera(_frame_to_fit(_bbox, _center))
    ELSE SetCamera(DefaultCamera)

reset_view ==
    /\ ResetCamera
    /\ last' = Event("reset_view", "", "none")
    /\ UNCHANGED <<jobVars, meshVars, inputVars, loads, events>>

\* load_new_obj(path) for an existing path whose _load_obj gives r:
\* ValueError leaves everything; IndexError comes out of
\* _compute_vertex_normals after _verts, _faces, _bbox and _center were
\* assigned, and skips _frame_to_fit.
LoadExisting(r, path) ==
    /\ loads < MaxLoads
    /\ loads' = loads + 1
    /\ last' = Event("load_new_obj", path, r.err)
    /\ IF r.installed
       THEN /\ _verts' = r.verts
            /\ _faces' = r.faces
            /\ _bbox' = r.bbox
            /\ _center' = r.center
       ELSE UNCHANGED <<_verts, _faces, _bbox, _center>>
    /\ IF r.err = "none"
       THEN /\ _vnorms' = r.vnorms
            /\ SetCamera(_frame_to_fit(r.bbox, r.center))
       ELSE UNCHANGED <<_vnorms, camVars>>
    /\ UNCHANGED <<jobVars, inputVars, events>>

\* load_new_obj(path), path one of the files or a path that does not exist
load_new_obj(path) ==
    IF path \in Paths THEN LoadExisting(Loaded[path], path)
    ELSE /\ last' = Event("load_new_obj", path, "skipped")
         /\ UNCHANGED <<jobVars, meshVars, camVars, inputVars, loads, events>>

\* load_new_obj(mesh_path): the file a generator job (or a test) wrote
LoadJobFile ==
    /\ obj_file # NoFile
    /\ LET r == _load_obj(obj_file) IN LoadExisting(r, "mesh_path")

\* ------------------------------------------------------------------------
\* SimpleGLViewport: input events and the frame timer
\* ------------------------------------------------------------------------
\* the keys the viewport reacts to, but for G (it only toggles the drawn grid)
Keys == {"W", "S", "A", "D", "Q", "E", "Shift", "R"}
Buttons == {"Left", "Right"}
Points == {<<0, 0>>, <<100, 600>>}
WheelAngles == {120, -120}
\* seconds since the previous tick: a normal 16 ms frame, and a stall
Elapsed == {16 * (Scale \div 1000), 2 * (Scale \div 10)}

\* every input event is counted against MaxEvents
Delivered(op) ==
    /\ events < MaxEvents
    /\ events' = events + 1
    /\ last' = Event(op, "", "none")
    /\ UNCHANGED <<jobVars, meshVars, loads>>

keyPressEvent(k) ==
    /\ Delivered(IF k = "R" THEN "reset_view" ELSE "input")
    /\ _keys' = _keys \cup {k}
    /\ IF k = "R" THEN ResetCamera ELSE UNCHANGED camVars
    /\ UNCHANGED <<_last_mouse, _dragging_look>>

keyReleaseEvent(k) ==
    /\ Delivered("input")
    /\ _keys' = _keys \ {k}
    /\ UNCHANGED <<camVars, _last_mouse, _dragging_look>>

mousePressEvent(button, p) ==
    /\ Delivered("input")
    /\ _dragging_look' = IF button = "Right" THEN TRUE ELSE _dragging_look
    /\ _last_mouse' = p
    /\ UNCHANGED <<camVars, _keys>>

mouseReleaseEvent(button) ==
    /\ Delivered("input")
    /\ _dragging_look' = IF button = "Right" THEN FALSE ELSE _dragging_look
    /\ UNCHANGED <<camVars, _keys, _last_mouse>>

\* mouse sensitivity 0.2 and the pitch limits of mouseMoveEvent
Sensitivity == 2 * (Scale \div 10)
PitchMax == 899 * (Scale \div 10)
PitchMin == -PitchMax

\* pitch clamped from above only
ClampPitch_UpperOnly(pitch) == Min2(PitchMax, pitch)

\* max(-89.9, min(89.9, pitch))
ClampPitch(pitch) == Max2(PitchMin, Min2(PitchMax, pitch))

\* a mouse move that turns the camera whether or not a drag is in progress
mouseMoveEvent_AlwaysLook(p) ==
    /\ Delivered("mouseMoveEvent")
    /\ _last_mouse' = p
    /\ _yaw' = _yaw + (p[1] - _last_mouse[1]) * Sensitivity
    /\ _pitch' = ClampPitch(_pitch + (-(p[2] - _last_mouse[2])) * Sensitivity)
    /\ UNCHANGED <<_dist, _cam_pos, _keys, _dragging_look>>

mouseMoveEvent(p) ==
    LET dx == p[1] - _last_mouse[1]
        dy == p[2] - _last_mouse[2]
    IN  /\ Delivered("mouseMoveEvent")
        /\ _last_mouse' = p
        /\ IF _dragging_look
           THEN /\ _yaw' = _yaw + dx * Sensitivity
                /\ _pitch' = ClampPitch(_pitch + (-dy) * Sensitivity)
           ELSE UNCHANGED <<_yaw, _pitch>>
        /\ UNCHANGED <<_dist, _cam_pos, _keys, _dragging_look>>

\* self._move_speed, and the factors applied to it
MoveSpeed == 15 * (Scale \div 10)
WheelFactor == 75 * (Scale \div 100)
FastFactor == 225 * (Scale \div 100)

\* delta = e.angleDelta().y() / 120.0; speed = self._move_speed * 0.75
wheelEvent(angle) ==
    /\ Delivered("wheelEvent")
    /\ _cam_pos' = _add(_cam_pos,
                        _mul(_basis(_yaw, _pitch).fwd,
                             FMul(FDiv(angle * Scale, 120 * Scale),
                                  FMul(MoveSpeed, WheelFactor))))
    /\ UNCHANGED <<_yaw, _pitch, _dist, inputVars>>

\* "if key in self._keys: move = _add(move, v)": what is added to move
Held(keys, key, v) == IF key \in keys THEN v ELSE Zero3

\* the backward key S dropped from the held keys
MoveDir_NoBackward(keys, b) ==
    _sub(_add(_sub(_add(_add(Zero3, Held(keys, "W", b.fwd)),
                        Held(keys, "D", b.right)),
                   Held(keys, "A", b.right)),
              Held(keys, "E", b.up)),
         Held(keys, "Q", b.up))

\* lines 213-219: the combined direction of the held movement keys
MoveDir(keys, b) ==
    _sub(_add(_sub(_add(_sub(_add(Zero3, Held(keys, "W", b.fwd)),
                             Held(keys, "S", b.fwd)),
                        Held(keys, "D", b.right)),
                   Held(keys, "A", b.right)),
              Held(keys, "E", b.up)),
         Held(keys, "Q", b.up))

\* lines 221-223
Advance(pos, move, step) ==
    IF move # Zero3 THEN _add(pos, _mul(_normalize(move), step)) ELSE pos

\* spd = self._move_speed * (2.25 if fast else 1.0)
Speed(keys) == FMul(MoveSpeed, IF "Shift" \in keys THEN FastFactor ELSE Scale)

\* _update_movement(dt): the camera position it leaves
_update_movement(dt) ==
    IF _keys = {} THEN _cam_pos
    ELSE Advance(_cam_pos, MoveDir(_keys, _basis(_yaw, _pitch)), FMul(Speed(_keys), dt))

\* dt = max(0.0, min(0.05, now - self._last_t))
MaxDt == 5 * (Scale \div 100)
ClampDt(elapsed) == Max2(0, Min2(MaxDt, elapsed))

_tick(elapsed) ==
    /\ Delivered("_tick")
    /\ _cam_pos' = _update_movement(ClampDt(elapsed))
    /\ UNCHANGED <<_yaw, _pitch, _dist, inputVars>>

\* ------------------------------------------------------------------------
\* The viewer on its own: Spec
\* ------------------------------------------------------------------------
\* ui.py constructs the viewport with obj_path = cube.obj, which may or may
\* not exist.
Init ==
    /\ input = None
    /\ made = NoMesh
    /\ obj_file = NoFile
    /\ \/ EmptyViewport
       \/ ViewportWith(Loaded["cube"])
    /\ last = Event("__init__", "", "none")
    /\ loads = 0
    /\ events = 0

Next ==
    \/ \E path \in Paths \cup {MissingPath} : load_new_obj(path)
    \/ reset_view
    \/ \E k \in Keys : keyPressEvent(k)
    \/ \E k \in Keys : keyReleaseEvent(k)
    \/ \E b \in Buttons, p \in Points : mousePressEvent(b, p)
    \/ \E b \in Buttons : mouseReleaseEvent(b)
    \/ \E p \in Points : mouseMoveEvent(p)
    \/ \E angle \in WheelAngles : wheelEvent(angle)
    \/ \E elapsed \in Elapsed : _tick(elapsed)

Spec == Init /\ [][Next]_vars

\* ------------------------------------------------------------------------
\* The generator feeding the viewer: SpecGen
\* ------------------------------------------------------------------------
\* bounds on the resolutions tried (both start at 3, the documented minimum)
MaxSeg == 5
MaxRings == 4

Sizes == {Scale, 2 * Scale}
Radii == {5 * (Scale \div 10), 6 * (Scale \div 10)}
TorusRadii == {<<65 * (Scale \div 100), 22 * (Scale \div 100)>>,
               <<6 * (Scale \div 10), 25 * (Scale \div 100)>>}

Call(shape, a, b, seg, rings) ==
    [shape |-> shape, a |-> a, b |-> b, seg |-> seg, rings |-> rings]

\* the calls _make_shape makes (lines 39-43)
MakeShapeCalls ==
    { Call("sphere", 6 * (Scale \div 10), 0, 32, 16),
      Call("torus", 65 * (Scale \div 100), 22 * (Scale \div 100), 40, 24),
      Call("cone", 6 * (Scale \div 10), Scale, 40, 0),
      Call("cylinder", 5 * (Scale \div 10), Scale, 40, 0),
      Call("cube", Scale, 0, 0, 0) }

BuilderCalls ==
    MakeShapeCalls
    \cup {Call("cube", sz, 0, 0, 0) : sz \in Sizes}
    \cup {Call("sphere", r, 0, seg, rings) : r \in Radii, seg \in 3..MaxSeg, rings \in 3..MaxRings}
    \cup {Call("torus", rr[1], rr[2], seg, rings) :
              rr \in TorusRadii, seg \in 3..MaxSeg, rings \in 3..MaxRings}
    \cup {Call("cone", r, Scale, seg, 0) : r \in Radii, seg \in 3..MaxSeg}
    \cup {Call("cylinder", r, Scale, seg, 0) : r \in Radii, seg \in 3..MaxSeg}

\* the builder a call names, applied to its arguments
Build(c) ==
    IF c.shape = "sphere" THEN _uv_sphere(c.a, c.seg, c.rings)
    ELSE IF c.shape = "torus" THEN _torus(c.a, c.b, c.seg, c.rings)
    ELSE IF c.shape = "cone" THEN _cone(c.a, c.b, c.seg)
    ELSE IF c.shape = "cylinder" THEN _cylinder(c.a, c.b, c.seg)
    ELSE _cube(c.a)

\* generate(): build the shape and write mesh.obj
generate ==
    /\ made = NoMesh
    /\ input \in BuilderCalls
    /\ LET m == Build(input)
       IN  /\ made' = m
           /\ obj_file' = _write_obj(m.verts, m.faces)
    /\ last' = Event("generate", "", "none")
    /\ UNCHANGED <<input, meshVars, camVars, inputVars, loads, events>>

InitGen ==
    /\ input \in BuilderCalls
    /\ made = NoMesh
    /\ obj_file = NoFile
    /\ EmptyViewport
    /\ last = Event("__init__", "", "none")
    /\ loads = 0
    /\ events = 0

NextGen ==
    \/ generate
    \/ LoadJobFile

SpecGen == InitGen /\ [][NextGen]_vars

\* ------------------------------------------------------------------------
\* The viewer pointed at hand-written files: SpecParse
\* ------------------------------------------------------------------------
\* A test file is `before` vertex lines, one face line, `after` vertex lines.
\* The face line's tokens are the integers idx printed in decimal, in one of
\* three styles: plain ("3"), with texture/normal fields ("3/7/8"), or plain
\* with a token whose vertex field is empty ("/1") put after the first.
MaxFaceLen == 4
IdxValues == {-7, -4, -1, 0, 1, 4}
Styles == {"plain", "slashes", "hole"}
VertsBefore == {3, 5}
VertsAfter == {0, 1}

VertexPool ==
    << <<0, 0, 0>>, <<Scale, 0, 0>>, <<0, Scale, 0>>, <<0, 0, Scale>>,
       <<Scale, Scale, Scale \div 2>>, <<-Scale, 0, Scale>> >>

SlashSuffix == <<"/", "7", "/", "8">>
HoleToken == <<"/", "1">>

FaceTokens(idx, style) ==
    LET toks == [i \in 1..Len(idx) |->
                    IntToStr(idx[i]) \o (IF style = "slashes" THEN SlashSuffix ELSE <<>>)]
    IN  IF style = "hole" THEN <<toks[1], HoleToken>> \o Tail(toks) ELSE toks

TestFile(t) ==
    [i \in 1..t.before |-> VertexLine(VertexPool[i])]
    \o << <<TokF>> \o FaceTokens(t.idx, t.style) >>
    \o [i \in 1..t.after |-> VertexLine(VertexPool[t.before + i])]

\* five vertex lines followed by "f -1 -2 -3", in each style
ScenarioInputs ==
    { [shape |-> "file", before |-> 5, idx |-> <<-1, -2, -3>>, style |-> st, after |-> 0] :
        st \in Styles }

TestInputs ==
    { [shape |-> "file", before |-> b, idx |-> idx, style |-> st, after |-> a] :
        b \in VertsBefore, a \in VertsAfter, st \in Styles,
        idx \in UNION {[1..n -> IdxValues] : n \in 2..MaxFaceLen} }
    \cup ScenarioInputs

InitParse ==
    /\ input \in TestInputs
    /\ made = NoMesh
    /\ obj_file = TestFile(input)
    /\ ViewportWith(Loaded["cube"])
    /\ last = Event("__init__", "", "none")
    /\ loads = 0
    /\ events = 0

NextParse == LoadJobFile

SpecParse == InitParse /\ [][NextParse]_vars

\* ------------------------------------------------------------------------
\* Properties
\* ------------------------------------------------------------------------
InRange(faces, n) ==
    \A i \in 1..Len(faces) : \A j \in 1..3 : 0 <= faces[i][j] /\ faces[i][j] < n

LoadDone == last.op = "load_new_obj" /\ last.err = "none"

\* C1: every face a builder returns is a triple of integers, each of them a
\* 0-based index into the vertex list returned with it (0 <= index <
\* len(verts)), for every builder and every call with segments >= 3 and
\* rings >= 3.
C1_IndexValidity ==
    made # NoMesh =>
        /\ \A i \in 1..Len(made.faces) :
               Len(made.faces[i]) = 3 /\ \A j \in 1..3 : made.faces[i][j] \in Int
        /\ InRange(made.faces, Len(made.verts))

\* a torus was built, and its last ring's faces wrap to the first ring while
\* the highest vertex index is in use
C1_Witness ==
    /\ made # NoMesh
    /\ input.shape = "torus"
    /\ \E i \in 1..Len(made.faces) :
           /\ made.faces[i][1] = Len(made.verts) - 1
           /\ made.faces[i][2] < input.seg

\* the largest difference that rounding to six decimals makes, in units of
\* 10^-7
WriteError == Scale \div (2 * 1000 * 1000)

\* C2: loading the file _write_obj wrote for a built mesh completes and
\* gives back as many vertices in the same order (each coordinate within
\* the rounding of the six written decimals), and exactly the mesh's list of
\* face index triples.
C2_RoundTrip ==
    (last.op = "load_new_obj" /\ made # NoMesh) =>
        /\ last.err = "none"
        /\ Len(_verts) = Len(made.verts)
        /\ \A i \in 1..Len(_verts) : \A c \in 1..3 :
               Abs(_verts[i][c] - made.verts[i][c]) <= WriteError
        /\ _faces = made.faces

\* the default sphere was written and read back, and some coordinate was
\* changed by the rounding
C2_Witness ==
    /\ LoadDone
    /\ input = Call("sphere", 6 * (Scale \div 10), 0, 32, 16)
    /\ Len(_faces) = 32 * (2 * 16 - 2)
    /\ \E i \in 1..Len(_verts) : _verts[i] # made.verts[i]

\* C3: a load that raises leaves _verts, _faces, _bbox, _center and _vnorms
\* as they were before it.
C3_FailedLoadExposesNothing ==
    [][(last'.op = "load_new_obj" /\ last'.err \in {"ValueError", "IndexError"})
           => UNCHANGED meshVars]_vars

\* C4: loading a file with a face line of two indices raises, and leaves the
\* mesh as it was.
C4_ShortLineFails ==
    [][(last'.op = "load_new_obj" /\ last'.arg = "shortf")
           => (last'.err # "none" /\ UNCHANGED meshVars)]_vars

\* C5: every index of every face in _faces is within [0, len(_verts)), and a
\* load of a file with a face index outside it (the token 0, or an index
\* above the number of vertices) raises.
C5_OutOfRangeRejected ==
    /\ InRange(_faces, Len(_verts))
    /\ (last.op = "load_new_obj" /\ last.arg \in {"zero", "toobig"}) => last.err # "none"

\* the 0-based index a non-zero token stands for on a face line read when k
\* vertices are parsed
C6_Expected(token, k) == IF token > 0 THEN token - 1 ELSE k + token

C6_Resolved(i, j) ==
    LET t == input.idx[IF j = 1 THEN 1 ELSE i + j - 1]
    IN  t # 0 => _faces[i][j] = C6_Expected(t, input.before)

\* C6: on a face line read when k vertices are parsed, a positive token p
\* becomes the 0-based index p - 1 and a negative token n becomes k + n,
\* whatever follows the token's first "/" and however many vertex lines come
\* after the face line; the triangles are the fan (t1, ti, ti+1) over the
\* tokens in order.
C6_IndexResolution ==
    (last.op = "load_new_obj" /\ input.shape = "file") =>
        /\ last.err \in {"none", "IndexError"}
        /\ Len(_verts) = input.before + input.after
        /\ Len(_faces) = Max2(Len(input.idx) - 2, 0)
        /\ \A i \in 1..Len(_faces) : \A j \in 1..3 : C6_Resolved(i, j)

\* five vertex lines then "f -1/7/8 -2/7/8 -3/7/8" were loaded
C6_Witness ==
    /\ LoadDone
    /\ input \in ScenarioInputs
    /\ input.style = "slashes"
    /\ _faces = << <<4, 3, 2>> >>

\* C7: _pitch is within [-89.9, 89.9] in every state of the viewer.
C7_PitchClamped == PitchMin <= _pitch /\ _pitch <= PitchMax

\* a mouse-look move ended with the pitch held at the lower limit
C7_Witness == last.op = "mouseMoveEvent" /\ _dragging_look /\ _pitch = PitchMin

\* C8: _bbox is None exactly when _verts is empty; otherwise every vertex is
\* within the box on each axis, and each of the six bounds is the coordinate
\* of some vertex.
C8_BoundsContain ==
    /\ (_bbox = None) <=> (_verts = <<>>)
    /\ _verts # <<>> =>
           \A c \in 1..3 :
               /\ \A i \in 1..Len(_verts) :
                      _bbox[c] <= _verts[i][c] /\ _verts[i][c] <= _bbox[c + 3]
               /\ \E i \in 1..Len(_verts) : _verts[i][c] = _bbox[c]
               /\ \E i \in 1..Len(_verts) : _verts[i][c] = _bbox[c + 3]

\* a second load installed the triangle, whose box has a positive extent
C8_Witness ==
    /\ LoadDone
    /\ loads = 2
    /\ last.arg = "tri"
    /\ _bbox # None
    /\ _bbox[1] < _bbox[4]

\* C9: after a load that completes, _bbox and _center are those of the
\* current _verts, and _vnorms has one entry per vertex, or none when there
\* are no vertices or no faces.
C9_DerivedDataFresh ==
    LoadDone =>
        /\ _bbox = _compute_bounds(_verts).bbox
        /\ _center = IF _verts = <<>> THEN Zero3
                     ELSE [c \in 1..3 |-> (_bbox[c] + _bbox[c + 3]) \div 2]
        /\ Len(_vnorms) = IF _verts = <<>> \/ _faces = <<>> THEN 0 ELSE Len(_verts)

\* the triangle was loaded over an earlier load and has three normals
C9_Witness ==
    /\ LoadDone
    /\ loads = 2
    /\ last.arg = "tri"
    /\ Len(_vnorms) = 3
    /\ Len(_faces) = 1

C10_Extent ==
    Max2(Max2(Max2(_bbox[4] - _bbox[1], _bbox[5] - _bbox[2]), _bbox[6] - _bbox[3]),
         MinExtent)

\* C10: after a load that completes, or a reset_view, with a bounding box
\* present, the camera is the one the box gives: yaw 35, pitch -20, distance
\* 2.2 times the largest extent (at least 0.25, so the distance is
\* positive), and position center - forward * distance.
C10_FitView ==
    ((LoadDone \/ last.op = "reset_view") /\ _bbox # None) =>
        /\ _yaw = DefaultYaw
        /\ _pitch = DefaultPitch
        /\ _dist = FMul(FitFactor, C10_Extent)
        /\ _dist > 0
        /\ _cam_pos = _sub([c \in 1..3 |-> (_bbox[c] + _bbox[c + 3]) \div 2],
                           _mul(_basis(DefaultYaw, DefaultPitch).fwd, _dist))

\* a single vertex was loaded; its extent 0 is raised to the minimum
C10_Witness ==
    /\ LoadDone
    /\ last.arg = "point"
    /\ _bbox # None
    /\ _dist = FMul(FitFactor, MinExtent)

Dot(a, b) == FMul(a[1], b[1]) + FMul(a[2], b[2]) + FMul(a[3], b[3])

\* cross(b - a, c - a) of the triangle f of the mesh m
FlatNormal(m, f) ==
    _cross(_sub(m.verts[f[2] + 1], m.verts[f[1] + 1]),
           _sub(m.verts[f[3] + 1], m.verts[f[1] + 1]))

\* the triangles of m that lie in the plane where coordinate c is h
FacesOnSide(m, c, h) ==
    {i \in 1..Len(m.faces) : \A j \in 1..3 : m.verts[m.faces[i][j] + 1][c] = h}

\* C11: _cube returns 8 vertices and 12 triangles, 2 on each of the 6 sides
\* of the cube, and for every triangle (a, b, c) the normal
\* cross(b - a, c - a) points away from the origin.
C11_CubeOutwardWinding ==
    (made # NoMesh /\ input.shape = "cube") =>
        /\ Len(made.verts) = 8
        /\ Len(made.faces) = 12
        /\ \A c \in 1..3 : \A h \in {input.a \div 2, -(input.a \div 2)} :
               Cardinality(FacesOnSide(made, c, h)) = 2
        /\ \A i \in 1..Len(made.faces) :
               Dot(FlatNormal(made, made.faces[i]), made.verts[made.faces[i][1] + 1]) > 0

\* the row (latitude index i) of vertex index v of a sphere with seg
\* longitude samples
SphereRow(v, seg) == v \div seg

\* the triangles of the sphere m appended for row i: those whose first
\* vertex is in row i
SphereBand(m, seg, i) == {k \in 1..Len(m.faces) : SphereRow(m.faces[k][1], seg) = i}

\* how many of the triangle's vertices are in a pole row (row 0 or row rings)
PoleCorners(f, seg, rings) ==
    Cardinality({j \in 1..3 : SphereRow(f[j], seg) \in {0, rings}})

\* C12: _uv_sphere returns (rings + 1) * seg vertices; rows 0 and rings - 1
\* contribute seg triangles each and every row between them 2 * seg; each
\* triangle of those two rows has exactly one vertex in a pole row.
C12_SphereCounts ==
    (made # NoMesh /\ input.shape = "sphere") =>
        /\ Len(made.verts) = (input.rings + 1) * input.seg
        /\ Len(made.faces) = input.seg * (2 * input.rings - 2)
        /\ \A i \in 0..(input.rings - 1) :
               Cardinality(SphereBand(made, input.seg, i)) =
                   IF i \in {0, input.rings - 1} THEN input.seg ELSE 2 * input.seg
        /\ \A k \in SphereBand(made, input.seg, 0)
                     \cup SphereBand(made, input.seg, input.rings - 1) :
               PoleCorners(made.faces[k], input.seg, input.rings) = 1

\* sphere(0.6, 32, 16) was built and has 544 vertices
C12_Witness ==
    /\ made # NoMesh
    /\ input = Call("sphere", 6 * (Scale \div 10), 0, 32, 16)
    /\ Len(made.verts) = 544
    /\ Cardinality(SphereBand(made, 32, 15)) = 32

\* the 0-based index the loader appends for the integer token t on a face
\* line read when k vertices are parsed
C13_Index(t, k) == IF t < 0 THEN k + t ELSE t - 1

\* C13: a face line with n >= 3 index tokens adds exactly the n - 2
\* triangles (v0, vi, v(i+1)), i = 1..n-2, in that order, v being the
\* resolved indices of the tokens in order; the file's only face line gives
\* the whole face list.
C13_FanTriangulation ==
    (last.op = "load_new_obj" /\ input.shape = "file" /\ Len(input.idx) >= 3) =>
        _faces = [i \in 1..(Len(input.idx) - 2) |->
                     <<C13_Index(input.idx[1], input.before),
                       C13_Index(input.idx[i + 1], input.before),
                       C13_Index(input.idx[i + 2], input.before)>>]

\* "f 1 4 -1 -4" after five vertex lines gave the two triangles of the fan
C13_Witness ==
    /\ LoadDone
    /\ input.shape = "file"
    /\ input.before = 5
    /\ input.idx = <<1, 4, -1, -4>>
    /\ _faces = << <<0, 3, 4>>, <<0, 4, 1>> >>

\* the directed edges (a,b), (b,c), (c,a) of the triangles of m
DirectedEdges(m) ==
    {<<m.faces[i][j], m.faces[i][(j % 3) + 1]>> : i \in 1..Len(m.faces), j \in 1..3}

\* C14: _torus returns ring * seg vertices and 2 * ring * seg triangles
\* forming a closed surface: no triangle repeats a vertex, no directed edge
\* is used by two triangles, and the reverse of every directed edge is used
\* too, so every undirected edge belongs to exactly two triangles, which
\* traverse it in opposite directions.
C14_TorusClosed ==
    (made # NoMesh /\ input.shape = "torus") =>
        /\ Len(made.verts) = input.rings * input.seg
        /\ Len(made.faces) = 2 * input.rings * input.seg
        /\ LET E == DirectedEdges(made)
           IN  /\ \A e \in E : e[1] # e[2] /\ <<e[2], e[1]>> \in E
               /\ Cardinality(E) = 3 * Len(made.faces)

\* torus(0.65, 0.22, 40, 24) was built: 960 vertices, 1920 triangles, and
\* the seam edge from the last vertex back to vertex 0's row is in use
C14_Witness ==
    /\ made # NoMesh
    /\ input = Call("torus", 65 * (Scale \div 100), 22 * (Scale \div 100), 40, 24)
    /\ Len(made.verts) = 960
    /\ Len(made.faces) = 1920
    /\ <<959, 39>> \in DirectedEdges(made)

\* how many times the triangle f names the vertex at position v (1-based)
Occurrences(f, v) == Cardinality({j \in 1..3 : f[j] + 1 = v})

\* the unit flat normal of the k-th active face
ActiveFlatNormal(k) == _normalize(FlatNormal([verts |-> _verts], _faces[k]))

\* the sum, over the first k active faces, of the face's flat normal once
\* per occurrence of the vertex at position v in it
RECURSIVE NormalSum(_, _)
NormalSum(v, k) ==
    IF k = 0 THEN Zero3
    ELSE _add(NormalSum(v, k - 1),
              [c \in 1..3 |-> Occurrences(_faces[k], v) * ActiveFlatNormal(k)[c]])

\* C15: after a load that completes with at least one face, all indices in
\* range, the normal of each vertex is the normalized sum of the unit flat
\* normals of the faces that name it, once per occurrence; a vertex no face
\* names has the zero vector; _normalize of the zero vector is the zero
\* vector.
C15_SmoothNormals ==
    /\ _normalize(Zero3) = Zero3
    /\ (LoadDone /\ _faces # <<>> /\ InRange(_faces, Len(_verts))) =>
           /\ Len(_vnorms) = Len(_verts)
           /\ \A v \in 1..Len(_verts) :
                  /\ _vnorms[v] = _normalize(NormalSum(v, Len(_faces)))
                  /\ (\A k \in 1..Len(_faces) : Occurrences(_faces[k], v) = 0)
                         => _vnorms[v] = Zero3

\* a file with a vertex line after its face line was loaded: the vertices of
\* the face have a normal and the later vertex has the zero vector
C15_Witness ==
    /\ LoadDone
    /\ input.shape = "file"
    /\ input.after = 1
    /\ Len(_faces) = 2
    /\ InRange(_faces, Len(_verts))
    /\ _vnorms[Len(_verts)] = Zero3
    /\ Occurrences(_faces[1], Len(_verts)) = 0
    /\ \E v \in 1..Len(_verts) : _vnorms[v] # Zero3

\* 1 when the key is held, else 0
Down(keys, key) == IF key \in keys THEN 1 ELSE 0

\* the held movement keys along forward, right and up, opposing keys
\* cancelling
NetKeys(keys) ==
    <<Down(keys, "W") - Down(keys, "S"), Down(keys, "D") - Down(keys, "A"),
      Down(keys, "E") - Down(keys, "Q")>>

\* C16: a tick that changes the camera position happens only with held
\* movement keys that do not cancel; with no key held or only opposing
\* pairs (W+S, A+D, Q+E) held, a tick leaves the position as it was.  A tick
\* changes no key.
C16_TickMovesOnlyWithDirection ==
    [][last'.op = "_tick" =>
           /\ _keys' = _keys
           /\ NetKeys(_keys) = <<0, 0, 0>> => _cam_pos' = _cam_pos]_vars

\* W and S were pressed and then a tick ran: the camera is where it started
C16_Witness ==
    /\ last.op = "_tick"
    /\ _keys = {"W", "S"}
    /\ events = 3
    /\ loads = 0
    /\ _verts = <<>>
    /\ _cam_pos = DefaultCamPos

\* C17: a mouse move never changes the camera position, and changes yaw
\* and pitch only while a right-button drag is in progress; a tick or a
\* wheel event never changes yaw or pitch; no key, mouse, wheel or tick
\* event changes the mesh, its bounding box, center or normals.
C17_InputSeparation ==
    [][/\ last'.op = "mouseMoveEvent" =>
              /\ _cam_pos' = _cam_pos
              /\ ~_dragging_look => (_yaw' = _yaw /\ _pitch' = _pitch)
       /\ last'.op \in {"_tick", "wheelEvent"} => (_yaw' = _yaw /\ _pitch' = _pitch)
       /\ last'.op \in {"mouseMoveEvent", "_tick", "wheelEvent", "input"} =>
              UNCHANGED meshVars]_vars

\* the pointer moved with no drag in progress, as the third event of a
\* run that never turned or moved the camera
C17_Witness ==
    /\ last.op = "mouseMoveEvent"
    /\ ~_dragging_look
    /\ events = 3
    /\ loads = 0
    /\ _last_mouse = <<100, 600>>
    /\ _yaw = DefaultYaw
    /\ _pitch = DefaultPitch
    /\ _cam_pos = DefaultCamPos

====
